---- MODULE Spec2Model ----
(***************************************************************************)
(* Shape-and-dataflow model of the AWNet image network                     *)
(* (models/model_3channel.py) and of its building blocks                   *)
(* (models/modules_4channel.py).                                           *)
(*                                                                         *)
(* A tensor is abstracted to its shape <<N, C, H, W>> together with the    *)
(* set of inputs its value was computed from.  Every layer is modelled by  *)
(* the shape contract the tensor framework enforces for it, so that a      *)
(* layer applied to a tensor it was not built for yields Err, which the    *)
(* callers propagate as the raised exception.                              *)
(***************************************************************************)
EXTENDS Integers, Sequences, FiniteSets, TLC

\* ------------------------------------------------------------------ bounds
\* input heights and widths of AWNet range over 16 * (1 .. MaxUnits)
MaxUnits == 2
\* block inputs of the module harness have heights/widths in 1 .. MaxSide
MaxSide == 5
\* dense layers tried for GCRDB range over 0 .. MaxDense
MaxDense == 2
\* fusions lists tried for ContextBlock2d have length 0 .. MaxFusions
MaxFusions == 2

\* ------------------------------------------------- state of the layers
VARIABLES
    training,      \* nn.Module.training: training mode (TRUE) or evaluation mode
    running_stats  \* BatchNorm running statistics: "initial" or "updated"

\* ------------------------------------------------------------- tensors
Tensor(shape, src) == [tag |-> "tensor", shape |-> shape, src |-> src]
Err == [tag |-> "error", shape |-> <<>>, src |-> {}]
None == [tag |-> "None", shape |-> <<>>, src |-> {}]
IsTensor(t) == t.tag = "tensor"
IsErr(t) == t.tag = "error"

Rank(t) == Len(t.shape)
Chan(t) == t.shape[2]
Height(t) == t.shape[3]
Width(t) == t.shape[4]
Is4D(t) == IsTensor(t) /\ Rank(t) = 4

Max2(a, b) == IF a >= b THEN a ELSE b

RECURSIVE Prod(_)
Prod(s) == IF s = <<>> THEN 1 ELSE Head(s) * Prod(Tail(s))

\* broadcasting of two shapes of the same rank: sizes agree or one of them is 1
BroadcastOK(a, b) ==
    /\ Len(a) = Len(b)
    /\ \A i \in 1..Len(a) : a[i] = b[i] \/ a[i] = 1 \/ b[i] = 1
Broadcast(a, b) == [i \in 1..Len(a) |-> Max2(a[i], b[i])]

\* elementwise x + y and x * y
Elementwise(x, y) ==
    IF IsTensor(x) /\ IsTensor(y) /\ BroadcastOK(x.shape, y.shape)
    THEN Tensor(Broadcast(x.shape, y.shape), x.src \cup y.src)
    ELSE Err

\* relu, sigmoid, PReLU: applied to each element, any shape
Pointwise(x) == IF IsTensor(x) THEN x ELSE Err

\* torch.cat along dim 1: all other sizes must agree
Cat(x, y) ==
    IF /\ Is4D(x) /\ Is4D(y)
       /\ x.shape[1] = y.shape[1] /\ Height(x) = Height(y) /\ Width(x) = Width(y)
    THEN Tensor(<<x.shape[1], Chan(x) + Chan(y), Height(x), Width(x)>>, x.src \cup y.src)
    ELSE Err

\* ------------------------------------------------------------- layers
Conv2d(cin, cout, k, s, p) == [cin |-> cin, cout |-> cout, k |-> k, s |-> s, p |-> p]

ConvOut(n, k, s, p) == ((n + 2 * p - k) \div s) + 1

Conv2dForward(L, x) ==
    IF /\ Is4D(x) /\ L.cin > 0 /\ L.cout > 0
       /\ Chan(x) = L.cin
       /\ Height(x) + 2 * L.p >= L.k /\ Width(x) + 2 * L.p >= L.k
    THEN Tensor(<<x.shape[1], L.cout, ConvOut(Height(x), L.k, L.s, L.p),
                  ConvOut(Width(x), L.k, L.s, L.p)>>, x.src)
    ELSE Err

\* BatchNorm2d normalises with the statistics of the batch in training mode
\* and with its running statistics in evaluation mode
BatchNorm2dForward(features, x) ==
    IF Is4D(x) /\ Chan(x) = features
    THEN IF training THEN x
         ELSE Tensor(x.shape, x.src \cup {IF running_stats = "initial"
                                          THEN "running_stats.initial"
                                          ELSE "running_stats.updated"})
    ELSE Err

\* LayerNorm(normalized_shape): the trailing sizes must equal normalized_shape
LayerNormForward(normalized, x) ==
    IF Is4D(x) /\ <<Chan(x), Height(x), Width(x)>> = normalized THEN x ELSE Err

AdaptiveAvgPool2dForward(size, x) ==
    IF Is4D(x) THEN Tensor(<<x.shape[1], Chan(x), size, size>>, x.src) ELSE Err

\* F.upsample(size=(h, w)): the spatial size becomes (h, w)
Upsample(x, h, w) ==
    IF Is4D(x) THEN Tensor(<<x.shape[1], Chan(x), h, w>>, x.src) ELSE Err

PixelShuffle2(x) ==
    IF Is4D(x) /\ Chan(x) % 4 = 0 /\ Chan(x) > 0
    THEN Tensor(<<x.shape[1], Chan(x) \div 4, 2 * Height(x), 2 * Width(x)>>, x.src)
    ELSE Err

\* x.view(shape): the number of elements must not change
View(x, shape) ==
    IF IsTensor(x) /\ Prod(x.shape) = Prod(shape) THEN Tensor(shape, x.src) ELSE Err

\* x.unsqueeze(d), d counted from 0
Unsqueeze(x, d) ==
    IF IsTensor(x) /\ d <= Rank(x)
    THEN Tensor(SubSeq(x.shape, 1, d) \o <<1>> \o SubSeq(x.shape, d + 1, Rank(x)), x.src)
    ELSE Err

\* torch.matmul of two rank-4 tensors: batch sizes broadcast, inner sizes agree
Matmul(a, b) ==
    IF /\ Is4D(a) /\ Is4D(b)
       /\ BroadcastOK(SubSeq(a.shape, 1, 2), SubSeq(b.shape, 1, 2))
       /\ a.shape[4] = b.shape[3]
    THEN Tensor(Broadcast(SubSeq(a.shape, 1, 2), SubSeq(b.shape, 1, 2))
                    \o <<a.shape[3], b.shape[4]>>, a.src \cup b.src)
    ELSE Err

\* nn.Softmax(dim): normalises along one dimension, the shape is kept
SoftmaxForward(dim, x) == IF IsTensor(x) /\ dim < Rank(x) THEN x ELSE Err

\* Python's None for an attribute that holds no layer; a present layer is <<layer>>
NoLayer == <<>>
Some(layer) == <<layer>>
Present(opt) == opt # NoLayer
Get(opt) == opt[1]

\* x in list
InList(x, list) == \E i \in 1..Len(list) : list[i] = x

\* ----------------------------------------------------- ContextBlock2d
FusionNames == <<"channel_add", "channel_mul">>
PoolNames == <<"avg", "att">>

ContextBlockFailed(msg) ==
    [ok |-> FALSE, error |-> msg, pool |-> "", conv_mask |-> NoLayer, softmax |-> FALSE,
     avg_pool |-> FALSE, channel_add_conv |-> NoLayer, channel_mul_conv |-> NoLayer]

\* the bottleneck of one fusion branch: conv, LayerNorm, PReLU, conv
FusionBranch(inplanes, planes, ratio) ==
    [conv_a |-> Conv2d(inplanes, planes \div ratio, 1, 1, 0),
     norm |-> <<planes \div ratio, 1, 1>>,
     conv_b |-> Conv2d(planes \div ratio, inplanes, 1, 1, 0)]

\* variant: the assertion on the number of fusions is missing
ContextBlock2d_NoLengthCheck(inplanes, planes, pool, fusions, ratio) ==
    IF ~InList(pool, PoolNames) THEN ContextBlockFailed("AssertionError")
    ELSE IF ~(\A i \in 1..Len(fusions) : InList(fusions[i], FusionNames))
    THEN ContextBlockFailed("AssertionError")
    ELSE [ok |-> TRUE, error |-> "",
          pool |-> pool,
          conv_mask |-> IF pool = "att" THEN Some(Conv2d(inplanes, 1, 1, 1, 0)) ELSE NoLayer,
          softmax |-> (pool = "att"),
          avg_pool |-> (pool # "att"),
          channel_add_conv |-> IF InList("channel_add", fusions)
                               THEN Some(FusionBranch(inplanes, planes, ratio)) ELSE NoLayer,
          channel_mul_conv |-> IF InList("channel_mul", fusions)
                               THEN Some(FusionBranch(inplanes, planes, ratio)) ELSE NoLayer]

ContextBlock2d(inplanes, planes, pool, fusions, ratio) ==
    IF ~InList(pool, PoolNames) THEN ContextBlockFailed("AssertionError")
    ELSE IF ~(\A i \in 1..Len(fusions) : InList(fusions[i], FusionNames))
    THEN ContextBlockFailed("AssertionError")
    ELSE IF ~(Len(fusions) > 0)
    THEN ContextBlockFailed("AssertionError: at least one fusion should be used")
    ELSE [ok |-> TRUE, error |-> "",
          pool |-> pool,
          \* 'att' in pool: of the two admitted names only 'att' contains it
          conv_mask |-> IF pool = "att" THEN Some(Conv2d(inplanes, 1, 1, 1, 0)) ELSE NoLayer,
          softmax |-> (pool = "att"),
          avg_pool |-> (pool # "att"),
          channel_add_conv |-> IF InList("channel_add", fusions)
                               THEN Some(FusionBranch(inplanes, planes, ratio)) ELSE NoLayer,
          channel_mul_conv |-> IF InList("channel_mul", fusions)
                               THEN Some(FusionBranch(inplanes, planes, ratio)) ELSE NoLayer]

FusionBranchForward(b, context) ==
    Conv2dForward(b.conv_b,
        Pointwise(LayerNormForward(b.norm, Conv2dForward(b.conv_a, context))))

spatial_pool(self, x) ==
    IF ~Is4D(x) THEN Err
    ELSE IF self.pool = "att"
    THEN IF ~Present(self.conv_mask) \/ ~self.softmax THEN Err
         ELSE LET batch == x.shape[1]
                  channel == Chan(x)
                  hw == Height(x) * Width(x)
                  input_x == Unsqueeze(View(x, <<batch, channel, hw>>), 1)
                  mask1 == View(Conv2dForward(Get(self.conv_mask), x), <<batch, 1, hw>>)
                  mask2 == Unsqueeze(SoftmaxForward(2, mask1), 3)
              IN View(Matmul(input_x, mask2), <<batch, channel, 1, 1>>)
    ELSE IF ~self.avg_pool THEN Err
         ELSE AdaptiveAvgPool2dForward(1, x)

ContextBlock2dForward(self, x) ==
    LET context == spatial_pool(self, x)
        out1 == IF Present(self.channel_mul_conv)
                THEN Elementwise(x, Pointwise(FusionBranchForward(Get(self.channel_mul_conv), context)))
                ELSE x
    IN IF IsErr(context) THEN Err
       ELSE IF Present(self.channel_add_conv)
       THEN Elementwise(out1, FusionBranchForward(Get(self.channel_add_conv), context))
       ELSE out1

\* the att_block that AWNet hands to its blocks: ContextBlock2d with its defaults
DefaultRatio == 4
\* the default reduction of SE_net
DefaultReduction == 4
att_block(inplanes, planes) ==
    ContextBlock2d(inplanes, planes, "att", <<"channel_add">>, DefaultRatio)

\* variant: x_red reduces the channels as conv_mid does
SE_net_ReducedOutput(in_channels, out_channels, reduction, attention) ==
    [attention |-> attention,
     conv_in |-> Conv2d(in_channels, in_channels, 1, 1, 0),
     conv_mid |-> Conv2d(in_channels, in_channels \div reduction, 1, 1, 0),
     conv_out |-> Conv2d(in_channels \div reduction, out_channels, 1, 1, 0),
     x_red |-> Conv2d(in_channels, out_channels \div reduction, 1, 1, 0)]

\* ------------------------------------------------------------- SE_net
SE_net(in_channels, out_channels, reduction, attention) ==
    [attention |-> attention,
     conv_in |-> Conv2d(in_channels, in_channels, 1, 1, 0),
     conv_mid |-> Conv2d(in_channels, in_channels \div reduction, 1, 1, 0),
     conv_out |-> Conv2d(in_channels \div reduction, out_channels, 1, 1, 0),
     x_red |-> Conv2d(in_channels, out_channels, 1, 1, 0)]

\* the gate y of SE_net.forward
SE_gate(self, x) ==
    Pointwise(Conv2dForward(self.conv_out,
        Pointwise(Conv2dForward(self.conv_mid,
            Pointwise(Conv2dForward(self.conv_in, AdaptiveAvgPool2dForward(1, x)))))))

\* variant: the gate is applied whatever self.attention is
SE_netForward_AlwaysGates(self, x) ==
    LET y == SE_gate(self, x)
    IN IF IsErr(y) THEN Err ELSE Elementwise(Conv2dForward(self.x_red, x), y)

SE_netForward(self, x) ==
    IF self.attention = TRUE
    THEN LET y == SE_gate(self, x)
         IN IF IsErr(y) THEN Err ELSE Elementwise(Conv2dForward(self.x_red, x), y)
    ELSE x

\* ------------------------------------------------- MakeDense and GCRDB
MakeDense(in_channels, growth_rate) ==
    [conv |-> Conv2d(in_channels, growth_rate, 3, 1, 1), norm_layer |-> growth_rate]

MakeDenseForward(self, x) ==
    LET out == BatchNorm2dForward(self.norm_layer, Pointwise(Conv2dForward(self.conv, x)))
    IN Cat(x, out)

\* variant: the loop does not add growth_rate to _in_channels
RECURSIVE DenseModules_NoGrowth(_, _, _)
DenseModules_NoGrowth(_in_channels, growth_rate, remaining) ==
    IF remaining = 0 THEN [modules |-> <<>>, _in_channels |-> _in_channels]
    ELSE LET rest == DenseModules_NoGrowth(_in_channels, growth_rate, remaining - 1)
         IN [modules |-> <<MakeDense(_in_channels, growth_rate)>> \o rest.modules,
             _in_channels |-> rest._in_channels]

\* the loop of GCRDB.__init__: modules built so far and the running _in_channels
RECURSIVE DenseModules(_, _, _)
DenseModules(_in_channels, growth_rate, remaining) ==
    IF remaining = 0 THEN [modules |-> <<>>, _in_channels |-> _in_channels]
    ELSE LET rest == DenseModules(_in_channels + growth_rate, growth_rate, remaining - 1)
         IN [modules |-> <<MakeDense(_in_channels, growth_rate)>> \o rest.modules,
             _in_channels |-> rest._in_channels]

GCRDB(in_channels, num_dense_layer, growth_rate) ==
    LET built == DenseModules(in_channels, growth_rate, num_dense_layer)
    IN [kind |-> "GCRDB",
        residual_dense_layers |-> built.modules,
        conv_1x1 |-> Conv2d(built._in_channels, in_channels, 1, 1, 0),
        final_att |-> att_block(in_channels, in_channels)]

\* the first i dense layers applied in order
RECURSIVE DenseChain(_, _, _)
DenseChain(layers, x, i) ==
    IF i = 0 THEN x ELSE MakeDenseForward(layers[i], DenseChain(layers, x, i - 1))

GCRDBForward(self, x) ==
    LET out_rdb0 == DenseChain(self.residual_dense_layers, x, Len(self.residual_dense_layers))
        out_rdb1 == Conv2dForward(self.conv_1x1, out_rdb0)
        out_rdb2 == IF self.final_att.ok THEN ContextBlock2dForward(self.final_att, out_rdb1) ELSE Err
    IN Elementwise(out_rdb2, x)

\* BatchNorm layers of one GCRDB that ran on x (each updates its running statistics)
GCRDBNormRuns(self, x) ==
    Cardinality({i \in 1..Len(self.residual_dense_layers) :
                    ~IsErr(DenseChain(self.residual_dense_layers, x, i))})

\* ---------------------------------------------------------- DWT and IWT
\* models.utils.DWT: the low-pass band xLL and the four stacked sub-bands,
\* each at half the height and width; the strided slices it adds only agree
\* in size for even heights and widths
DWTForward(x) ==
    IF Is4D(x) /\ Height(x) % 2 = 0 /\ Width(x) % 2 = 0
    THEN [xLL |-> Tensor(<<x.shape[1], Chan(x), Height(x) \div 2, Width(x) \div 2>>, x.src),
          dwt |-> Tensor(<<x.shape[1], 4 * Chan(x), Height(x) \div 2, Width(x) \div 2>>, x.src)]
    ELSE [xLL |-> Err, dwt |-> Err]

\* models.utils.IWT: four sub-bands per channel give one channel at twice the size
IWTForward(x) ==
    IF Is4D(x) /\ Chan(x) % 4 = 0 /\ Chan(x) > 0
    THEN Tensor(<<x.shape[1], Chan(x) \div 4, 2 * Height(x), 2 * Width(x)>>, x.src)
    ELSE Err

\* -------------------------------------------------------- GCWTResDown
\* variant: the strided convolution of the stem has no padding
GCWTResDown_NoPadding(in_channels, norm_layer) ==
    [kind |-> "GCWTResDown",
     stem_conv1 |-> Conv2d(in_channels, in_channels, 3, 2, 0),
     stem_conv2 |-> Conv2d(in_channels, in_channels, 3, 1, 1),
     stem_norm |-> IF norm_layer # "None" THEN Some(in_channels) ELSE NoLayer,
     conv1x1 |-> Conv2d(in_channels, in_channels, 1, 1, 0),
     conv_down |-> Conv2d(in_channels, in_channels, 3, 2, 1)]

\* norm_layer is "BatchNorm2d" (the default) or "None"
GCWTResDown(in_channels, norm_layer) ==
    [kind |-> "GCWTResDown",
     stem_conv1 |-> Conv2d(in_channels, in_channels, 3, 2, 1),
     stem_conv2 |-> Conv2d(in_channels, in_channels, 3, 1, 1),
     stem_norm |-> IF norm_layer # "None" THEN Some(in_channels) ELSE NoLayer,
     conv1x1 |-> Conv2d(in_channels, in_channels, 1, 1, 0),
     conv_down |-> Conv2d(in_channels, in_channels, 3, 2, 1)]

NormOrSkip(norm, x) == IF Present(norm) THEN BatchNorm2dForward(Get(norm), x) ELSE x

GCWTResDownStem(self, x) ==
    LET a == Pointwise(NormOrSkip(self.stem_norm, Conv2dForward(self.stem_conv1, x)))
    IN Pointwise(NormOrSkip(self.stem_norm, Conv2dForward(self.stem_conv2, a)))

GCWTResDownForward(self, x) ==
    LET stem == GCWTResDownStem(self, x)
        d == DWTForward(x)
        res == Conv2dForward(self.conv1x1, d.xLL)
        out == Cat(stem, res)
    IN IF IsErr(out) THEN [out |-> Err, dwt |-> Err] ELSE [out |-> out, dwt |-> d.dwt]

\* ---------------------------------------------------------- GCIWTResUp
\* variant: pre_conv_stem does not widen its input before the pixel shuffle
GCIWTResUp_StemNotWidened(in_channels, norm_layer) ==
    [module |-> "modules_4channel",
     stem_conv1 |-> Conv2d(in_channels \div 4, in_channels \div 4, 3, 1, 1),
     stem_conv2 |-> Conv2d(in_channels \div 4, in_channels \div 4, 3, 1, 1),
     stem_norm |-> IF norm_layer # "None" THEN Some(in_channels \div 4) ELSE NoLayer,
     pre_conv_stem |-> Conv2d(in_channels \div 2, in_channels \div 2, 1, 1, 0),
     pre_conv |-> Conv2d(in_channels, in_channels, 1, 1, 0),
     post_conv |-> Conv2d(in_channels \div 4, in_channels \div 4, 1, 1, 0),
     last_conv |-> Conv2d(in_channels \div 2, in_channels \div 4, 1, 1, 0)]

GCIWTResUp(in_channels, norm_layer) ==
    [module |-> "modules_4channel",
     stem_conv1 |-> Conv2d(in_channels \div 4, in_channels \div 4, 3, 1, 1),
     stem_conv2 |-> Conv2d(in_channels \div 4, in_channels \div 4, 3, 1, 1),
     stem_norm |-> IF norm_layer # "None" THEN Some(in_channels \div 4) ELSE NoLayer,
     pre_conv_stem |-> Conv2d(in_channels \div 2, in_channels, 1, 1, 0),
     pre_conv |-> Conv2d(in_channels, in_channels, 1, 1, 0),
     post_conv |-> Conv2d(in_channels \div 4, in_channels \div 4, 1, 1, 0),
     last_conv |-> Conv2d(in_channels \div 2, in_channels \div 4, 1, 1, 0)]

GCIWTResUpStem(self, x) ==
    LET a == Pointwise(NormOrSkip(self.stem_norm, Conv2dForward(self.stem_conv1, PixelShuffle2(x))))
    IN Pointwise(NormOrSkip(self.stem_norm, Conv2dForward(self.stem_conv2, a)))

GCIWTResUpForward(self, x, x_dwt) ==
    LET x1 == Conv2dForward(self.pre_conv_stem, x)
        stem == GCIWTResUpStem(self, x1)
        x_dwt1 == Conv2dForward(self.pre_conv, x_dwt)
        x_iwt == Conv2dForward(self.post_conv, IWTForward(x_dwt1))
    IN Conv2dForward(self.last_conv, Cat(stem, x_iwt))

\* -------------------------------------------------------- shortcutblock
shortcutblock(in_channels, out_channels) ==
    [module |-> "modules_4channel",
     conv1 |-> Conv2d(in_channels, out_channels, 3, 1, 1),
     conv2 |-> Conv2d(out_channels, out_channels, 3, 1, 1),
     se |-> SE_net(out_channels, out_channels, DefaultReduction, TRUE)]

shortcutblockForward(self, x) ==
    SE_netForward(self.se,
        Pointwise(Conv2dForward(self.conv2, Pointwise(Conv2dForward(self.conv1, x)))))

\* ------------------------------------------------------------ PSPModule
PSPModule(features, out_features, sizes) ==
    [stages |-> [i \in 1..Len(sizes) |->
                    [prior |-> sizes[i], conv |-> Conv2d(features, features, 1, 1, 0)]],
     bottleneck |-> Conv2d(features * (Len(sizes) + 1), out_features, 1, 1, 0)]

\* torch.cat of the first i priors and feats
RECURSIVE PSPPriors(_, _, _)
PSPPriors(self, feats, i) ==
    IF i = 0 THEN feats
    ELSE LET stage == self.stages[i]
             prior == Upsample(Conv2dForward(stage.conv,
                                   AdaptiveAvgPool2dForward(stage.prior, feats)),
                               Height(feats), Width(feats))
         IN Cat(prior, PSPPriors(self, feats, i - 1))

PSPModuleForward(self, feats) ==
    IF ~Is4D(feats) THEN Err
    ELSE Pointwise(Conv2dForward(self.bottleneck, PSPPriors(self, feats, Len(self.stages))))

\* ------------------------------------------- constructor signatures
\* a signature: the parameters after self, the first `required` without default
Sig(params, required) == [params |-> params, required |-> required]

\* the __init__ signatures of modules_4channel.py
Signature4(class) ==
    CASE class = "GCRDB" ->
            Sig(<<"in_channels", "att_block", "num_dense_layer", "growth_rate">>, 2)
      [] class = "GCWTResDown" -> Sig(<<"in_channels", "att_block", "norm_layer">>, 2)
      [] class = "GCIWTResUp" -> Sig(<<"in_channels", "att_block", "norm_layer">>, 2)
      [] class = "shortcutblock" -> Sig(<<"in_channels", "out_channels">>, 2)
      [] class = "SE_net" ->
            Sig(<<"in_channels", "out_channels", "reduction", "attention">>, 2)
      [] class = "PSPModule" -> Sig(<<"features", "out_features", "sizes">>, 1)
      [] class = "ContextBlock2d" ->
            Sig(<<"inplanes", "planes", "pool", "fusions", "ratio">>, 0)

\* Python's binding of a call's arguments: npos positional ones, then keywords
Accepts(sig, npos, kw) ==
    /\ npos <= Len(sig.params)
    /\ \A k \in kw : \E i \in (npos + 1)..Len(sig.params) : sig.params[i] = k
    /\ \A i \in 1..sig.required : i <= npos \/ sig.params[i] \in kw

\* ------------------------------- modules_3channel (imported by AWNet)
\* The two classes whose use in AWNet differs from modules_4channel, stated
\* by the contract AWNet relies on: shortcutblock(c) keeps the shape of a
\* c-channel tensor; GCIWTResUp(c) takes a c-channel tensor and the 2c-channel
\* sub-bands produced with it and returns c/2 channels at twice the size.
Signature3(class) ==
    IF class = "shortcutblock" THEN Sig(<<"in_channels">>, 1) ELSE Signature4(class)

shortcutblock3(in_channels) ==
    [module |-> "modules_3channel", in_channels |-> in_channels]

shortcutblock3Forward(self, x) ==
    IF Is4D(x) /\ Chan(x) = self.in_channels THEN x ELSE Err

GCIWTResUp3(in_channels) ==
    [module |-> "modules_3channel", in_channels |-> in_channels]

GCIWTResUp3Forward(self, x, x_dwt) ==
    IF /\ Is4D(x) /\ Is4D(x_dwt)
       /\ Chan(x) = self.in_channels /\ Chan(x_dwt) = 2 * self.in_channels
       /\ x.shape[1] = x_dwt.shape[1]
       /\ Height(x) = Height(x_dwt) /\ Width(x) = Width(x_dwt)
    THEN Tensor(<<x.shape[1], self.in_channels \div 2, 2 * Height(x), 2 * Width(x)>>,
                x.src \cup x_dwt.src)
    ELSE Err

\* ---------------------------------------------------------------- AWNet
\* defaults of GCRDB.__init__
NumDenseLayer == 6
GrowthRate == 16

ClassesOfModules == {"GCIWTResUp", "shortcutblock"}
ModuleNames == {"modules_3channel", "modules_4channel"}

\* the signature a class name is bound to; GCRDB, GCWTResDown, SE_net, PSPModule
\* and ContextBlock2d are the definitions of modules_4channel.py throughout
SigOf(modules, class) ==
    IF class \in DOMAIN modules /\ modules[class] = "modules_3channel"
    THEN Signature3(class) ELSE Signature4(class)

Site(class, npos, kw) == [class |-> class, npos |-> npos, kw |-> kw]

\* constructor calls of one encoder layer, in execution order
LayerSites(nblocks, down) ==
    (IF nblocks > 0
     THEN <<Site("GCRDB", 2, {}), Site("ContextBlock2d", 0, {"inplanes", "planes"})>>
     ELSE <<>>)
    \o (IF down THEN <<Site("GCWTResDown", 2, {"norm_layer"})>> ELSE <<>>)

\* constructor calls of AWNet.__init__, in execution order
CtorSites(block) ==
    LayerSites(block[1], TRUE) \o LayerSites(block[2], TRUE) \o LayerSites(block[3], TRUE)
    \o LayerSites(block[4], TRUE) \o LayerSites(block[5], FALSE)
    \o <<Site("GCIWTResUp", 2, {}), Site("shortcutblock", 1, {}), Site("SE_net", 2, {}),
         Site("PSPModule", 0, {"features", "out_features", "sizes"})>>

Rejected(modules, block) ==
    {i \in 1..Len(CtorSites(block)) :
        ~Accepts(SigOf(modules, CtorSites(block)[i].class),
                 CtorSites(block)[i].npos, CtorSites(block)[i].kw)}

Min(S) == CHOOSE m \in S : \A n \in S : m <= n

\* variant: every layer, layer5 included, ends with a GCWTResDown
NewLayer_AlwaysDown(channels, nblocks, down) ==
    [i \in 1..nblocks |-> GCRDB(channels, NumDenseLayer, GrowthRate)]
    \o <<GCWTResDown(channels, "None")>>

NewLayer(channels, nblocks, down) ==
    [i \in 1..nblocks |-> GCRDB(channels, NumDenseLayer, GrowthRate)]
    \o (IF down THEN <<GCWTResDown(channels, "None")>> ELSE <<>>)

NewUp(modules, in_channels) ==
    IF modules["GCIWTResUp"] = "modules_3channel"
    THEN GCIWTResUp3(in_channels) ELSE GCIWTResUp(in_channels, "None")

AWNet(in_channels, out_channels, block, modules) ==
    IF Rejected(modules, block) # {}
    THEN [ok |-> FALSE, error |-> "TypeError",
          class |-> CtorSites(block)[Min(Rejected(modules, block))].class]
    ELSE [ok |-> TRUE, error |-> "", class |-> "",
          out_channels |-> out_channels,
          conv1 |-> Conv2d(in_channels, 64, 3, 1, 1),
          layer1 |-> NewLayer(64, block[1], TRUE),
          layer2 |-> NewLayer(128, block[2], TRUE),
          layer3 |-> NewLayer(256, block[3], TRUE),
          layer4 |-> NewLayer(512, block[4], TRUE),
          layer5 |-> NewLayer(1024, block[5], FALSE),
          layer4_up |-> NewUp(modules, 1024),
          layer3_up |-> NewUp(modules, 512),
          layer2_up |-> NewUp(modules, 256),
          layer1_up |-> NewUp(modules, 128),
          sc_x1 |-> shortcutblock3(64),
          sc_x2 |-> shortcutblock3(128),
          sc_x3 |-> shortcutblock3(256),
          sc_x4 |-> shortcutblock3(512),
          scale_5 |-> Conv2d(1024, out_channels, 3, 1, 1),
          scale_4 |-> Conv2d(512, out_channels, 3, 1, 1),
          scale_3 |-> Conv2d(256, out_channels, 3, 1, 1),
          scale_2 |-> Conv2d(128, out_channels, 3, 1, 1),
          final_conv |-> Conv2d(64, out_channels, 3, 1, 1),
          se1 |-> SE_net(64, 64, DefaultReduction, TRUE),
          se2 |-> SE_net(128, 128, DefaultReduction, TRUE),
          se3 |-> SE_net(256, 256, DefaultReduction, TRUE),
          se4 |-> SE_net(512, 512, DefaultReduction, TRUE),
          se5 |-> SE_net(1024, 1024, DefaultReduction, TRUE),
          enhance |-> PSPModule(64, 64, <<1, 2, 3, 6>>)]

\* nn.Sequential over the first i modules of a layer: the value handed on, the
\* sub-bands when the last module was a GCWTResDown, and the BatchNorm runs
RECURSIVE SequentialForward(_, _, _)
SequentialForward(mods, x, i) ==
    IF i = 0 THEN [out |-> x, dwt |-> None, bn |-> 0]
    ELSE LET prev == SequentialForward(mods, x, i - 1)
             m == mods[i]
         IN IF prev.dwt # None
            THEN [out |-> Err, dwt |-> None, bn |-> prev.bn]
            ELSE IF m.kind = "GCRDB"
            THEN [out |-> GCRDBForward(m, prev.out), dwt |-> None,
                  bn |-> prev.bn + GCRDBNormRuns(m, prev.out)]
            ELSE [out |-> GCWTResDownForward(m, prev.out).out,
                  dwt |-> GCWTResDownForward(m, prev.out).dwt, bn |-> prev.bn]

UpForward(self, x, x_dwt) ==
    IF self.module = "modules_3channel"
    THEN GCIWTResUp3Forward(self, x, x_dwt) ELSE GCIWTResUpForward(self, x, x_dwt)

\* ================================================================ state
VARIABLES
    modules,    \* the module each class of ClassesOfModules is imported from
    net,        \* the constructed AWNet (its sub-modules), or NoNet
    pc,         \* position: "new", "ready", a line of AWNet.forward, ...
    args,       \* arguments of the forward call in progress
    env,        \* local variables of the forward call in progress
    trace,      \* statements executed by the call in progress
    result,     \* what the last forward call returned
    ref,        \* an earlier completed call, kept for comparison
    blk         \* the block under test in the module harness

vars == <<modules, net, pc, args, env, trace, result, training, running_stats, ref, blk>>

NoNet == [ok |-> FALSE, error |-> "", class |-> ""]
Unbound == [tag |-> "unbound", shape |-> <<>>, src |-> {}]
NoArgs == [x |-> None, target |-> None, teacher_latent |-> None]
NoResult == [raised |-> FALSE, outputs |-> <<>>, latent |-> None]
Raised == [raised |-> TRUE, outputs |-> <<>>, latent |-> None]
NoRef == [x |-> None, training |-> TRUE, stale |-> FALSE, result |-> NoResult]
NoBlk == [kind |-> "none"]

Locals == {"x", "target", "teacher_latent", "x1", "x2", "x2_dwt", "x3", "x3_dwt",
           "x4", "x4_dwt", "x5", "x5_dwt", "x5_latent", "x5_out", "x4_up", "x4_out",
           "x3_up", "x3_out", "x2_up", "x2_out", "x1_up", "out"}

\* ------------------------------------------------------------- inputs
DefaultBlock == <<2, 2, 2, 3, 4>>
NetParams ==
    {[in_channels |-> 3, out_channels |-> 3, block |-> DefaultBlock],
     [in_channels |-> 4, out_channels |-> 3, block |-> <<0, 0, 0, 0, 0>>],
     [in_channels |-> 3, out_channels |-> 1, block |-> <<1, 0, 2, 0, 1>>]}

\* sizes: multiples of 16, and one even height that is not one
XSizes == {<<16 * k, 16>> : k \in 1..MaxUnits} \cup {<<16, 32>>, <<24, 16>>}
XInputs ==
    {Tensor(<<1, 3, hw[1], hw[2]>>, {"x"}) : hw \in XSizes}
        \cup {Tensor(<<1, 4, 16, w>>, {"x"}) : w \in {16, 32}}
TargetInputs == {None, Tensor(<<1, 3, 16, 16>>, {"target"})}
TeacherInputs == {None, Tensor(<<1, 1024, 1, 1>>, {"teacher_latent"})}

InitNet ==
    /\ net = NoNet /\ pc = "new" /\ args = NoArgs
    /\ env = [n \in Locals |-> Unbound]
    /\ trace = <<>> /\ result = NoResult
    /\ training = TRUE
    /\ running_stats = "initial" /\ ref = NoRef

Init ==
    /\ modules = [c \in ClassesOfModules |-> "modules_3channel"]
    /\ InitNet
    /\ blk = NoBlk

\* ------------------------------------------------- AWNet.__init__
Construct ==
    /\ pc = "new"
    /\ \E p \in NetParams :
          /\ net' = AWNet(p.in_channels, p.out_channels, p.block, modules)
          /\ pc' = IF net'.ok THEN "ready" ELSE "ctor_raised"
    /\ UNCHANGED <<modules, args, env, trace, result, training, running_stats, ref, blk>>

\* ------------------------------------------------- AWNet.forward
Call ==
    /\ pc \in {"ready", "returned", "raised"}
    /\ \E x \in XInputs, target \in TargetInputs, teacher_latent \in TeacherInputs :
          /\ args' = [x |-> x, target |-> target, teacher_latent |-> teacher_latent]
          /\ env' = [n \in Locals |->
                        CASE n = "x" -> x
                          [] n = "target" -> target
                          [] n = "teacher_latent" -> teacher_latent
                          [] OTHER -> Unbound]
    /\ pc' = "L83"
    /\ trace' = <<>>
    /\ result' = NoResult
    /\ UNCHANGED <<modules, net, training, running_stats, ref, blk>>

\* net.train(mode) / net.eval(), inherited from nn.Module, between two calls
train ==
    /\ pc \in {"ready", "returned", "raised"}
    /\ training' = ~training
    /\ pc' = "ready"
    /\ UNCHANGED <<modules, net, args, env, trace, result, running_stats, ref, blk>>

\* one statement: evaluates vals from the locals `uses` through the sub-modules
\* `via`, binds them to the locals `defs`; an Err among vals is the exception
Exec(line, next, defs, uses, via, vals, bn) ==
    /\ pc = line
    /\ trace' = Append(trace, [line |-> line, defs |-> defs, uses |-> uses, via |-> via])
    /\ running_stats' = IF bn > 0 /\ training THEN "updated" ELSE running_stats
    /\ ref' = IF bn > 0 /\ training /\ ref.x # None /\ ~ref.training
              THEN [ref EXCEPT !.stale = TRUE] ELSE ref
    /\ IF \E i \in 1..Len(vals) : ~IsTensor(vals[i])
       THEN pc' = "raising" /\ env' = env
       ELSE /\ pc' = next
            /\ env' = [n \in Locals |->
                          IF \E i \in 1..Len(defs) : defs[i] = n
                          THEN vals[CHOOSE i \in 1..Len(defs) : defs[i] = n]
                          ELSE env[n]]
    /\ UNCHANGED <<modules, net, args, result, training, blk>>

\* x1 = self.conv1(x)
Stem(line, next) ==
    Exec(line, next, <<"x1">>, <<"x">>, <<"conv1">>,
         <<Conv2dForward(net.conv1, env["x"])>>, 0)

\* a, a_dwt = self.layer(self.se(input))
Encode(line, next, a, a_dwt, layer, se, input) ==
    /\ pc = line
    /\ \E r \in {SequentialForward(net[layer], SE_netForward(net[se], env[input]),
                                     Len(net[layer]))} :
          Exec(line, next, <<a, a_dwt>>, <<input>>, <<se, layer>>, <<r.out, r.dwt>>, r.bn)

\* variant: the latent is pulled towards teacher_latent when one is given
Latent_AddsTeacher(line, next) ==
    /\ pc = line
    /\ \E r \in {SequentialForward(net.layer5, SE_netForward(net.se5, env["x5"]),
                                     Len(net.layer5))} :
          Exec(line, next, <<"x5_latent">>, <<"x5", "teacher_latent">>, <<"se5", "layer5">>,
               <<IF r.dwt # None THEN Err
                 ELSE IF env["teacher_latent"] = None THEN r.out
                 ELSE Elementwise(r.out, env["teacher_latent"])>>, r.bn)

\* x5_latent = self.layer5(self.se5(x5))
Latent(line, next) ==
    /\ pc = line
    /\ \E r \in {SequentialForward(net.layer5, SE_netForward(net.se5, env["x5"]),
                                     Len(net.layer5))} :
          Exec(line, next, <<"x5_latent">>, <<"x5">>, <<"se5", "layer5">>,
               <<IF r.dwt = None THEN r.out ELSE Err>>, r.bn)

\* a_out = F.sigmoid(self.head(input))
OutputHead(line, next, a_out, head, input) ==
    Exec(line, next, <<a_out>>, <<input>>, <<head>>,
         <<Pointwise(Conv2dForward(net[head], env[input]))>>, 0)

\* a_up = self.up(deep, deep_dwt) + self.sc(skip)
Decode(line, next, a_up, up, deep, deep_dwt, sc, skip) ==
    Exec(line, next, <<a_up>>, <<deep, deep_dwt, skip>>, <<up, sc>>,
         <<Elementwise(UpForward(net[up], env[deep], env[deep_dwt]),
                       shortcutblock3Forward(net[sc], env[skip]))>>, 0)

\* x1_up = self.enhance(x1_up)
Enhance(line, next) ==
    Exec(line, next, <<"x1_up">>, <<"x1_up">>, <<"enhance">>,
         <<PSPModuleForward(net.enhance, env["x1_up"])>>, 0)

L83 == Stem("L83", "L85")
L85 == Encode("L85", "L86", "x2", "x2_dwt", "layer1", "se1", "x1")
L86 == Encode("L86", "L87", "x3", "x3_dwt", "layer2", "se2", "x2")
L87 == Encode("L87", "L88", "x4", "x4_dwt", "layer3", "se3", "x3")
L88 == Encode("L88", "L89", "x5", "x5_dwt", "layer4", "se4", "x4")
L89 == Latent("L89", "L91")
L91 == OutputHead("L91", "L93", "x5_out", "scale_5", "x5_latent")
L93 == Decode("L93", "L94", "x4_up", "layer4_up", "x5_latent", "x5_dwt", "sc_x4", "x4")
L94 == OutputHead("L94", "L96", "x4_out", "scale_4", "x4_up")
\* variant: stage 3 of the decoder reads the sub-bands of stage 4 again
L96_WrongBand == Decode("L96", "L97", "x3_up", "layer3_up", "x4_up", "x5_dwt", "sc_x3", "x3")
L96 == Decode("L96", "L97", "x3_up", "layer3_up", "x4_up", "x4_dwt", "sc_x3", "x3")
L97 == OutputHead("L97", "L99", "x3_out", "scale_3", "x3_up")
L99 == Decode("L99", "L100", "x2_up", "layer2_up", "x3_up", "x3_dwt", "sc_x2", "x2")
L100 == OutputHead("L100", "L102", "x2_out", "scale_2", "x2_up")
L102 == Decode("L102", "L103", "x1_up", "layer1_up", "x2_up", "x2_dwt", "sc_x1", "x1")
L103 == Enhance("L103", "L104")
L104 == OutputHead("L104", "L107", "out", "final_conv", "x1_up")

\* variant: the outputs are returned coarsest scale first
ReturnValue_CoarsestFirst(e) ==
    [raised |-> FALSE,
     outputs |-> <<e["x5_out"], e["x4_out"], e["x3_out"], e["x2_out"], e["out"]>>,
     latent |-> e["x5_latent"]]

\* the value of the return statement
ReturnValue(e) ==
    [raised |-> FALSE,
     outputs |-> <<e["out"], e["x2_out"], e["x3_out"], e["x4_out"], e["x5_out"]>>,
     latent |-> e["x5_latent"]]

\* a completed call forward(x), made without the optional arguments, may be
\* the one kept for later comparison
Remember(r) ==
    ref' \in {ref} \cup
            {[x |-> args.x, training |-> training, stale |-> FALSE, result |-> r] :
                b \in {a \in {args} : a.target = None /\ a.teacher_latent = None}}

\* return (out, x2_out, x3_out, x4_out, x5_out), x5_latent
L107 ==
    /\ pc = "L107"
    /\ result' = ReturnValue(env)
    /\ Remember(result')
    /\ pc' = "returned"
    /\ UNCHANGED <<modules, net, args, env, trace, training, running_stats, blk>>

\* the exception of a failed statement leaves forward
Raise ==
    /\ pc = "raising"
    /\ result' = Raised
    /\ Remember(Raised)
    /\ pc' = "raised"
    /\ UNCHANGED <<modules, net, args, env, trace, training, running_stats, blk>>

Forward ==
    \/ L83 \/ L85 \/ L86 \/ L87 \/ L88 \/ L89 \/ L91 \/ L93 \/ L94 \/ L96
    \/ L97 \/ L99 \/ L100 \/ L102 \/ L103 \/ L104 \/ L107 \/ Raise

Next == Construct \/ Call \/ train \/ Forward

Spec == Init /\ [][Next]_vars

\* ===================================================== the blocks alone
\* Each block of modules_4channel.py constructed with arguments drawn from
\* small sets and run on an input, as the __main__ section of the file does.
BlockChannels == {4, 6}
BlockInputs ==
    {Tensor(<<n, c, h, w>>, {"x"}) : n \in {1, 2}, c \in BlockChannels,
                                    h \in 1..MaxSide, w \in 1..MaxSide}
netUnchanged ==
    UNCHANGED <<modules, net, pc, args, env, trace, result, training, running_stats, ref>>

\* SE_net(in_channels, out_channels, reduction, attention)(x)
SEnetRun ==
    /\ blk = NoBlk
    /\ \E i \in BlockChannels, o \in {3, 4, 6}, r \in {2, 4}, a \in BOOLEAN, x \in BlockInputs :
          blk' = [kind |-> "SE_net", in_channels |-> i, out_channels |-> o,
                  self |-> SE_net(i, o, r, a), x |-> x,
                  gate |-> IF a THEN SE_gate(SE_net(i, o, r, a), x) ELSE None,
                  out |-> SE_netForward(SE_net(i, o, r, a), x)]
    /\ netUnchanged

\* lists over `names` of length 0 .. MaxFusions
ListsOver(names) == UNION {[1..k -> names] : k \in 0..MaxFusions}

\* ContextBlock2d(inplanes, planes, pool, fusions)
ContextBlockNew ==
    /\ blk = NoBlk
    /\ \E c \in BlockChannels, pool \in {"avg", "att", "max"},
          fusions \in ListsOver({"channel_add", "channel_mul", "channel_cat"}) :
          blk' = [kind |-> "ContextBlock2d", at |-> "constructed", inplanes |-> c,
                  pool |-> pool, fusions |-> fusions,
                  self |-> ContextBlock2d(c, c, pool, fusions, DefaultRatio),
                  x |-> None, context |-> None, out |-> None]
    /\ netUnchanged

\* forward(x) of the block just constructed
ContextBlockCall ==
    /\ blk.kind = "ContextBlock2d" /\ blk.at = "constructed" /\ blk.self.ok
    /\ \E x \in BlockInputs :
          blk' = [blk EXCEPT !.at = "called", !.x = x,
                             !.context = spatial_pool(blk.self, x),
                             !.out = ContextBlock2dForward(blk.self, x)]
    /\ netUnchanged

\* GCRDB(in_channels, att_block, num_dense_layer, growth_rate).forward(x) begins
GCRDBCall ==
    /\ blk = NoBlk
    /\ \E c \in BlockChannels, n \in 0..MaxDense, g \in {2, GrowthRate}, x \in BlockInputs :
          blk' = [kind |-> "GCRDB", at |-> "L20", in_channels |-> c, num_dense_layer |-> n,
                  growth_rate |-> g, self |-> GCRDB(c, n, g), x |-> x, i |-> 0,
                  out_rdb |-> x, out |-> None, log |-> <<>>]
    /\ netUnchanged

GCRDBStep(at, next, op, val) ==
    /\ blk.kind = "GCRDB" /\ blk.at = at
    /\ blk' = IF IsErr(val) THEN [blk EXCEPT !.at = "raised"]
              ELSE [blk EXCEPT !.at = next, !.out_rdb = val, !.log = Append(@, op)]
    /\ netUnchanged

\* out_rdb = self.residual_dense_layers(x), one MakeDense at a time
GCRDBDense ==
    /\ blk.kind = "GCRDB" /\ blk.at = "L20"
    /\ blk.i < Len(blk.self.residual_dense_layers)
    /\ LET val == MakeDenseForward(blk.self.residual_dense_layers[blk.i + 1], blk.out_rdb)
       IN blk' = IF IsErr(val) THEN [blk EXCEPT !.at = "raised"]
                 ELSE [blk EXCEPT !.i = @ + 1, !.out_rdb = val, !.log = Append(@, "dense")]
    /\ netUnchanged

\* out_rdb = self.conv_1x1(out_rdb)
GCRDBConv ==
    /\ blk.kind = "GCRDB" /\ blk.at = "L20"
    /\ blk.i = Len(blk.self.residual_dense_layers)
    /\ GCRDBStep("L20", "L22", "conv_1x1", Conv2dForward(blk.self.conv_1x1, blk.out_rdb))

\* out_rdb = self.final_att(out_rdb)
GCRDBAtt ==
    GCRDBStep("L22", "L23", "final_att", ContextBlock2dForward(blk.self.final_att, blk.out_rdb))

\* out = out_rdb + x
GCRDBAdd ==
    /\ blk.kind = "GCRDB" /\ blk.at = "L23"
    /\ LET val == Elementwise(blk.out_rdb, blk.x)
       IN blk' = IF IsErr(val) THEN [blk EXCEPT !.at = "raised"]
                 ELSE [blk EXCEPT !.at = "returned", !.out = val, !.log = Append(@, "add")]
    /\ netUnchanged

\* net2 = GCWTResDown(C, ContextBlock2d, norm_layer); y = net2(x)
DownRun ==
    /\ blk = NoBlk
    /\ \E c \in BlockChannels, norm \in {"None", "BatchNorm2d"}, x \in BlockInputs :
          blk' = [kind |-> "GCWTResDown", at |-> "down", in_channels |-> c,
                  norm_layer |-> norm, x |-> x,
                  stem |-> GCWTResDownStem(GCWTResDown(c, norm), x),
                  res |-> Conv2dForward(GCWTResDown(c, norm).conv1x1, DWTForward(x).xLL),
                  y |-> GCWTResDownForward(GCWTResDown(c, norm), x),
                  up |-> None]
    /\ netUnchanged

\* net3 = GCIWTResUp(4 * C, ContextBlock2d); y = net3(y[0], y[1])
UpRun ==
    /\ blk.kind = "GCWTResDown" /\ blk.at = "down"
    /\ ~IsErr(blk.y.out)
    /\ blk' = [blk EXCEPT !.at = "up",
                          !.up = GCIWTResUpForward(GCIWTResUp(4 * blk.in_channels, "None"),
                                                   blk.y.out, blk.y.dwt)]
    /\ netUnchanged

NextModules ==
    \/ SEnetRun \/ ContextBlockNew \/ ContextBlockCall
    \/ GCRDBCall \/ GCRDBDense \/ GCRDBConv \/ GCRDBAtt \/ GCRDBAdd
    \/ DownRun \/ UpRun

SpecModules == Init /\ [][NextModules]_vars

\* ============================ AWNet against the definitions of either file
\* As Spec, with GCIWTResUp and shortcutblock each taken from modules_3channel
\* or from modules_4channel.py.
InitLink ==
    /\ modules \in [ClassesOfModules -> ModuleNames]
    /\ InitNet
    /\ blk = NoBlk

SpecLink == InitLink /\ [][Next]_vars

\* ================================================================ claims
InForward == pc \notin {"new", "ready", "ctor_raised"}

\* the call in progress has an input the network was built for, with height
\* and width multiples of 16
XFits == Is4D(args.x) /\ Chan(args.x) = net.conv1.cin
XMultipleOf16 == XFits /\ Height(args.x) % 16 = 0 /\ Width(args.x) % 16 = 0

Pow2(k) == CASE k = 0 -> 1 [] k = 1 -> 2 [] k = 2 -> 4 [] k = 3 -> 8 [] k = 4 -> 16

\* t is at resolution level k of the call's input: its size is the input's / 2^k
AtLevel(t, k) ==
    /\ Is4D(t)
    /\ Height(t) * Pow2(k) = Height(args.x)
    /\ Width(t) * Pow2(k) = Width(args.x)

\* the last statement of the trace that assigned local n
Assigned(n) == {i \in 1..Len(trace) : \E j \in 1..Len(trace[i].defs) : trace[i].defs[j] = n}
LastAssigned(n) == trace[CHOOSE i \in Assigned(n) : \A j \in Assigned(n) : j <= i]

OutputNames == <<"out", "x2_out", "x3_out", "x4_out", "x5_out">>
OutputHeads == <<"final_conv", "scale_2", "scale_3", "scale_4", "scale_5">>

\* C1: whenever AWNet.forward returns, for any x and any block list, it returns
\* a pair of a 5-tuple (out, x2_out, x3_out, x4_out, x5_out), finest scale
\* first, and the latent; output i is the result of its own head
\* (final_conv, scale_2, scale_3, scale_4, scale_5) and has out_channels
\* channels; the latent is the 1024-channel output of layer5 that feeds
\* scale_5, not the result of a head.
C1_ForwardReturnsOutputsAndLatent ==
    pc = "returned" =>
        /\ Len(result.outputs) = 5
        /\ \A i \in 1..5 :
              /\ result.outputs[i] = env[OutputNames[i]]
              /\ Chan(result.outputs[i]) = net.out_channels
              /\ AtLevel(result.outputs[i], i - 1)
              /\ LastAssigned(OutputNames[i]).via = <<OutputHeads[i]>>
              /\ net[OutputHeads[i]].cout = net.out_channels
        /\ result.latent = env["x5_latent"]
        /\ Chan(result.latent) = 1024
        /\ LastAssigned("x5_latent").via = <<"se5", "layer5">>
        /\ LastAssigned("x5_out").uses = <<"x5_latent">>
        /\ \A i \in 1..5 : result.latent # result.outputs[i]

C1_Witness ==
    /\ pc = "returned"
    /\ net.out_channels = 1
    /\ Height(args.x) = 32 /\ Width(args.x) = 16
    /\ result.outputs[5].shape = <<1, 1, 2, 1>>
    /\ result.latent.shape = <<1, 1024, 2, 1>>

\* the channels and the resolution level each local of forward must have
ExpectedChannels(n) ==
    CASE n = "x1" -> 64 [] n = "x2" -> 128 [] n = "x3" -> 256 [] n = "x4" -> 512
      [] n = "x5" -> 1024 [] n = "x5_latent" -> 1024
      [] n = "x2_dwt" -> 256 [] n = "x3_dwt" -> 512 [] n = "x4_dwt" -> 1024
      [] n = "x5_dwt" -> 2048
      [] n = "x4_up" -> 512 [] n = "x3_up" -> 256 [] n = "x2_up" -> 128 [] n = "x1_up" -> 64
      [] OTHER -> net.out_channels
ExpectedLevel(n) ==
    CASE n \in {"x1", "x1_up", "out"} -> 0
      [] n \in {"x2", "x2_dwt", "x2_up", "x2_out"} -> 1
      [] n \in {"x3", "x3_dwt", "x3_up", "x3_out"} -> 2
      [] n \in {"x4", "x4_dwt", "x4_up", "x4_out"} -> 3
      [] OTHER -> 4

\* statements of the trace whose result is one level deeper (shallower) than
\* the local they read first
LevelOf(n) == CHOOSE k \in 0..4 : AtLevel(env[n], k)
Downsamplings ==
    {trace[i].line : i \in {j \in 1..Len(trace) :
        LevelOf(trace[j].defs[1]) = LevelOf(trace[j].uses[1]) + 1}}
Upsamplings ==
    {trace[i].line : i \in {j \in 1..Len(trace) :
        LevelOf(trace[j].defs[1]) = LevelOf(trace[j].uses[1]) - 1}}

ResultDependsOnX ==
    /\ (pc \in {"returned", "raised"} /\ ref.x = args.x) => ref.result = result
    /\ pc = "returned" =>
          /\ result.latent.src \subseteq {"x", "running_stats.initial"}
          /\ \A i \in 1..Len(result.outputs) :
                result.outputs[i].src \subseteq {"x", "running_stats.initial"}

\* C5 (as stated): the result of forward depends on x alone: any two completed
\* calls with the same x gave the same result, whatever target and
\* teacher_latent were and whatever calls were made before; every returned
\* tensor is computed from x only; no step changes the network's sub-modules.
C5_ForwardDependsOnXOnly ==
    [][ResultDependsOnX' /\ (pc # "new" => net' = net)]_vars

\* what a returned tensor may have been computed from
Sources == {"x", "running_stats.initial", "running_stats.updated"}

\* completed calls with the same x in the same mode agree, unless they are
\* evaluation-mode calls with a training-mode update of the running
\* statistics between them
ResultDependsOnXAndMode ==
    /\ (/\ pc \in {"returned", "raised"} /\ ref.x = args.x
        /\ ref.training = training /\ (training \/ ~ref.stale)) => ref.result = result
    /\ pc = "returned" =>
          /\ "x" \in result.latent.src /\ result.latent.src \subseteq Sources
          /\ \A i \in 1..Len(result.outputs) :
                /\ "x" \in result.outputs[i].src
                /\ result.outputs[i].src \subseteq Sources
          /\ training => result.latent.src = {"x"}

\* C5 (amended): target and teacher_latent never influence the result and no
\* step of forward changes the network's sub-modules, but the BatchNorm
\* layers of the dense blocks keep running statistics that training-mode
\* calls update and evaluation-mode calls read: two completed calls with the
\* same x agree when made in the same mode and, in evaluation mode, with no
\* training-mode call between them; every returned tensor is computed from
\* x and, in evaluation mode, the running statistics.
C5_DependsOnXAndRunningStats ==
    [][/\ ResultDependsOnXAndMode'
       /\ (pc # "new" => net' = net)
       /\ (running_stats' # running_stats => training)]_vars

C5_Witness ==
    /\ pc = "returned"
    /\ ref.x = args.x /\ ~ref.result.raised
    /\ ~training /\ ~ref.training /\ ~ref.stale
    /\ args.target # None /\ args.teacher_latent # None
    /\ running_stats = "updated"
    /\ "running_stats.updated" \in result.latent.src

DwtNames == {"x2_dwt", "x3_dwt", "x4_dwt", "x5_dwt"}

\* the sub-band locals among a list of names, in order
RECURSIVE OnlyDwt(_)
OnlyDwt(names) ==
    IF names = <<>> THEN <<>>
    ELSE (IF Head(names) \in DwtNames THEN <<Head(names)>> ELSE <<>>) \o OnlyDwt(Tail(names))

\* the stack of sub-bands after the first i statements: a statement pops the
\* ones it reads, which must be on top, and pushes the ones it assigns;
\* <<"bad">> once a read was not of the top
RECURSIVE Pop(_, _)
Pop(stack, names) ==
    IF names = <<>> THEN stack
    ELSE IF stack # <<>> /\ stack # <<"bad">> /\ stack[Len(stack)] = Head(names)
    THEN Pop(SubSeq(stack, 1, Len(stack) - 1), Tail(names))
    ELSE <<"bad">>
RECURSIVE DwtStack(_)
DwtStack(i) ==
    IF i = 0 THEN <<>>
    ELSE LET popped == Pop(DwtStack(i - 1), OnlyDwt(trace[i].uses))
         IN IF popped = <<"bad">> THEN popped ELSE popped \o OnlyDwt(trace[i].defs)

RECURSIVE Flatten(_, _)
Flatten(field, i) ==
    IF i = 0 THEN <<>> ELSE Flatten(field, i - 1) \o OnlyDwt(trace[i][field])

IsPrefix(a, b) == Len(a) <= Len(b) /\ a = SubSeq(b, 1, Len(a))

\* the decoder statement of each skip connection: up block, inputs, shortcut
DecoderPairs ==
    {[via |-> <<"layer4_up", "sc_x4">>, uses |-> <<"x5_latent", "x5_dwt", "x4">>, defs |-> <<"x4_up">>],
     [via |-> <<"layer3_up", "sc_x3">>, uses |-> <<"x4_up", "x4_dwt", "x3">>, defs |-> <<"x3_up">>],
     [via |-> <<"layer2_up", "sc_x2">>, uses |-> <<"x3_up", "x3_dwt", "x2">>, defs |-> <<"x2_up">>],
     [via |-> <<"layer1_up", "sc_x1">>, uses |-> <<"x2_up", "x2_dwt", "x1">>, defs |-> <<"x1_up">>]}

\* C8: in forward the sub-bands are produced in the order x2_dwt, x3_dwt,
\* x4_dwt, x5_dwt and consumed in the reverse order, each once, as a stack;
\* decoder stage k consumes the sub-bands x(k+1)_dwt and adds the shortcut
\* sc_xk(xk) of the encoder feature of its level; and every local is assigned
\* by an earlier statement than any that reads it.
C8_StackDiscipline ==
    InForward =>
        /\ \A i \in 1..Len(trace) : \A u \in 1..Len(trace[i].uses) :
              \/ trace[i].uses[u] = "x"
              \/ \E j \in 1..(i - 1) : \E d \in 1..Len(trace[j].defs) :
                    trace[j].defs[d] = trace[i].uses[u]
        /\ DwtStack(Len(trace)) # <<"bad">>
        /\ IsPrefix(Flatten("defs", Len(trace)), <<"x2_dwt", "x3_dwt", "x4_dwt", "x5_dwt">>)
        /\ IsPrefix(Flatten("uses", Len(trace)), <<"x5_dwt", "x4_dwt", "x3_dwt", "x2_dwt">>)
        /\ \A i \in 1..Len(trace) :
              (\E u \in 1..Len(trace[i].uses) : trace[i].uses[u] \in DwtNames) =>
                  [via |-> trace[i].via, uses |-> trace[i].uses, defs |-> trace[i].defs]
                      \in DecoderPairs
        /\ pc = "returned" =>
              /\ DwtStack(Len(trace)) = <<>>
              /\ Flatten("defs", Len(trace)) = <<"x2_dwt", "x3_dwt", "x4_dwt", "x5_dwt">>
              /\ Flatten("uses", Len(trace)) = <<"x5_dwt", "x4_dwt", "x3_dwt", "x2_dwt">>
              /\ \A p \in DecoderPairs : \E i \in 1..Len(trace) :
                    [via |-> trace[i].via, uses |-> trace[i].uses, defs |-> trace[i].defs] = p

C8_Witness ==
    /\ pc = "returned"
    /\ Len(trace) = 16
    /\ DwtStack(5) = <<"x2_dwt", "x3_dwt", "x4_dwt", "x5_dwt">>
    /\ DwtStack(10) = <<"x2_dwt", "x3_dwt">>

\* ------------------------------------------------- claims on the blocks
Even(n) == n % 2 = 0
BlkFits == Is4D(blk.x) /\ Chan(blk.x) = blk.in_channels
BlkEven == BlkFits /\ Even(Height(blk.x)) /\ Even(Width(blk.x))

RECURSIVE Repeat(_, _)
Repeat(op, n) == IF n = 0 THEN <<>> ELSE <<op>> \o Repeat(op, n - 1)
GCRDBOrder(n) == Repeat("dense", n) \o <<"conv_1x1", "final_att", "add">>

C6_SEGating ==
    blk.kind = "SE_net" =>
        /\ (blk.self.attention /\ BlkFits) =>
              /\ blk.gate.shape = <<blk.x.shape[1], blk.out_channels, 1, 1>>
              /\ blk.out.shape =
                    <<blk.x.shape[1], blk.out_channels, Height(blk.x), Width(blk.x)>>
              /\ blk.out = Elementwise(Conv2dForward(blk.self.x_red, blk.x), blk.gate)
        /\ ~blk.self.attention => blk.out = blk.x

C6_Witness ==
    /\ blk.kind = "SE_net" /\ blk.self.attention /\ BlkFits
    /\ blk.in_channels = 6 /\ blk.out_channels = 3
    /\ blk.x.shape = <<2, 6, 5, 2>>
    /\ blk.out.shape = <<2, 3, 5, 2>>

\* the arguments ContextBlock2d accepts
ContextBlockArgsOK(pool, fusions) ==
    /\ pool \in {"avg", "att"}
    /\ fusions # <<>>
    /\ \A i \in 1..Len(fusions) : fusions[i] \in {"channel_add", "channel_mul"}

\* C7: ContextBlock2d is constructed iff pool is 'avg' or 'att' and fusions is
\* non-empty with elements among 'channel_add' and 'channel_mul'; otherwise
\* an assertion fails before any sub-layer exists, an empty list failing the
\* 'at least one fusion should be used' assertion. Once constructed,
\* channel_add_conv (channel_mul_conv) is present exactly when 'channel_add'
\* ('channel_mul') is in fusions, at least one of them is, and the pooling
\* layer spatial_pool uses is the one that was created.
C7_ContextBlockConstruction ==
    blk.kind = "ContextBlock2d" =>
        /\ blk.self.ok <=> ContextBlockArgsOK(blk.pool, blk.fusions)
        /\ ~blk.self.ok =>
              /\ blk.self.error \in {"AssertionError",
                                       "AssertionError: at least one fusion should be used"}
              /\ blk.self.conv_mask = NoLayer /\ ~blk.self.softmax /\ ~blk.self.avg_pool
              /\ blk.self.channel_add_conv = NoLayer /\ blk.self.channel_mul_conv = NoLayer
        /\ (blk.fusions = <<>> /\ blk.pool \in {"avg", "att"}) =>
              blk.self.error = "AssertionError: at least one fusion should be used"
        /\ blk.self.ok =>
              /\ Present(blk.self.channel_add_conv) <=> InList("channel_add", blk.fusions)
              /\ Present(blk.self.channel_mul_conv) <=> InList("channel_mul", blk.fusions)
              /\ Present(blk.self.channel_add_conv) \/ Present(blk.self.channel_mul_conv)
              /\ blk.pool = "att" => (Present(blk.self.conv_mask) /\ blk.self.softmax)
              /\ blk.pool = "avg" => blk.self.avg_pool
        /\ (blk.at = "called" /\ Is4D(blk.x) /\ Chan(blk.x) = blk.inplanes) =>
              /\ blk.context.shape = <<blk.x.shape[1], Chan(blk.x), 1, 1>>
              /\ blk.out.shape = blk.x.shape

C7_Witness ==
    /\ blk.kind = "ContextBlock2d" /\ blk.at = "called" /\ blk.self.ok
    /\ blk.pool = "avg" /\ blk.fusions = <<"channel_mul", "channel_add">>
    /\ Is4D(blk.x) /\ Chan(blk.x) = blk.inplanes
    /\ blk.out.shape = blk.x.shape

AllFromModules4 == \A c \in ClassesOfModules : modules[c] = "modules_4channel"

====
